---------------------------- MODULE Spec2Model ----------------------------
(***************************************************************************)
(* Model of rust_core (OSRS Core): pixel cue detection (detection.rs),     *)
(* capture_and_analyze (capture.rs) and the integration layer              *)
(* (integration.rs): intent / snapshot validation, region and tutorial     *)
(* phase lookup, stage timing and snapshot merge.                          *)
(*                                                                         *)
(* Every library function is stateless.  A behaviour is one call: the      *)
(* initial state holds the operation and its arguments, the action of the  *)
(* operation computes the return value.  capture_and_analyze is modelled   *)
(* statement by statement.                                                 *)
(*                                                                         *)
(* Representation notes                                                    *)
(*  - img_data is a sequence of bytes; Rust index k is TLA+ index k+1.     *)
(*  - u32 width/height are naturals below 2^31; their u32 product is       *)
(*    carried as two 16-bit halves [hi, lo] so that wrap-around is exact.  *)
(*  - usize is 64 bits wide (x86_64 target of the extension module).       *)
(*  - f32 confidences are carried exactly in thousandths (count/500 and    *)
(*    count/1000 are exact in thousandths); f32 rounding is not modelled.  *)
(*  - u64 millisecond counts are four 16-bit limbs, most significant       *)
(*    first, so that the narrowing cast to u32 is exact.                   *)
(***************************************************************************)
EXTENDS Integers, Sequences, FiniteSets, TLC

VARIABLES
    pc,        \* control point of the call: "call", "done", or a statement label
    op,        \* name of the operation being called
    args,      \* the arguments of the call
    ret,       \* the value returned (NoRet until the call returns)
    img_data,  \* capture_and_analyze: the captured frame (local img_data)
    arrow,     \* capture_and_analyze: local arrow
    highlight, \* capture_and_analyze: local highlight
    capture_ms, \* capture_and_analyze: local capture_ms
    acquired,  \* capture_and_analyze: what capture_region returned
    ran,       \* capture_and_analyze: detectors called so far, in call order
    owner,     \* parallel scan: the worker each pixel index is given to
    cursor,    \* parallel scan: how many of its indices each worker has tested
    emitted,   \* parallel scan: the matches each worker has collected so far
    joined,    \* parallel scan: the workers whose matches have been merged
    collected  \* parallel scan: the merged matches (yellow_pixels / cyan_pixels)

scan_vars == <<owner, cursor, emitted, joined, collected>>

vars == <<pc, op, args, ret, img_data, arrow, highlight, capture_ms, acquired, ran,
          owner, cursor, emitted, joined, collected>>

NoRet == [tag |-> "NoRet"]
None == [tag |-> "None"]
Panic == [tag |-> "Panic"]
Some(v) == [tag |-> "Some", val |-> v]
Ok(v) == [tag |-> "Ok", val |-> v]
Err(e) == [tag |-> "Err", msg |-> e]

-----------------------------------------------------------------------------
(* u32 arithmetic of detection.rs line 12: (width * height) as usize        *)

Pow16 == 65536

\* (x * y) mod 2^16 for 16-bit x, y, without leaving 31 bits
MulMod16(x, y) ==
    ((x * (y % 256)) + ((x * (y \div 256)) % 256) * 256) % Pow16

\* floor(x * y / 2^16) for 16-bit x, y
MulHi16(x, y) ==
    LET p0 == x * (y % 256)
        p1 == x * (y \div 256)
    IN  (p1 \div 256) + (((p1 % 256) * 256 + p0) \div Pow16)

\* u32 wrapping product (release profile: overflow checks off)
wrapping_mul(a, b) ==
    LET ah == a \div Pow16
        al == a % Pow16
        bh == b \div Pow16
        bl == b % Pow16
    IN  [hi |-> (MulHi16(al, bl) + MulMod16(ah, bl) + MulMod16(al, bh)) % Pow16,
         lo |-> MulMod16(al, bl)]

\* whether a * b does not fit in u32 (debug profile: the multiplication panics)
mul_overflows(a, b) ==
    LET ah == a \div Pow16
        al == a % Pow16
        bh == b \div Pow16
        bl == b % Pow16
    IN  \/ (ah > 0 /\ bh > 0)
        \/ ah * bl >= Pow16
        \/ al * bh >= Pow16
        \/ ah * bl + al * bh + MulHi16(al, bl) >= Pow16

\* img_data.len() < total_pixels * 4, total_pixels given as [hi, lo]
len_lt_total4(len, total) ==
    LET q == len \div 4
    IN  \/ q \div Pow16 < total.hi
        \/ (q \div Pow16 = total.hi /\ q % Pow16 < total.lo)

-----------------------------------------------------------------------------
(* detection.rs                                                            *)

\* img_data[k], Rust's 0-based indexing
At(img, k) == img[k + 1]

\* detection.rs line 28
is_yellow(r, g, b) == r > 200 /\ g > 200 /\ b < 80

\* detection.rs line 77
is_cyan(r, g, b) == r < 80 /\ g > 180 /\ b > 180

\* the (x, y) of the pixel indices idx, in order (lines 29-31 / 78-80)
coords_of(idx, pixels_per_row) ==
    [k \in 1..Len(idx) |->
        [x |-> idx[k] % pixels_per_row, y |-> idx[k] \div pixels_per_row]]

\* lines 19-36: the filter_map + collect over 0..total_pixels, in index order
yellow_pixels(img, total_pixels, pixels_per_row) ==
    coords_of(SelectSeq([k \in 1..total_pixels |-> k - 1],
                        LAMBDA i : is_yellow(At(img, i * 4),
                                             At(img, i * 4 + 1),
                                             At(img, i * 4 + 2))),
              pixels_per_row)

\* lines 68-85
cyan_pixels(img, total_pixels, pixels_per_row) ==
    coords_of(SelectSeq([k \in 1..total_pixels |-> k - 1],
                        LAMBDA i : is_cyan(At(img, i * 4),
                                           At(img, i * 4 + 1),
                                           At(img, i * 4 + 2))),
              pixels_per_row)

RECURSIVE SumRange(_, _, _)
\* sum of f[lo..hi], the iterator sum of lines 43-44
SumRange(f, lo, hi) ==
    IF lo > hi THEN 0
    ELSE IF lo = hi THEN f[lo]
    ELSE LET mid == (lo + hi) \div 2
         IN  SumRange(f, lo, mid) + SumRange(f, mid + 1, hi)

\* minimum pixel counts, lines 38 and 87
ARROW_MIN_PIXELS == 10
HIGHLIGHT_MIN_PIXELS == 20
\* confidence normalizers, lines 51 and 98
ARROW_NORMALIZER == 500
HIGHLIGHT_NORMALIZER == 1000

\* (count as f32 / normalizer).min(1.0), in thousandths
confidence_of(count, normalizer) ==
    LET c == (count * 1000) \div normalizer
    IN  IF c < 1000 THEN c ELSE 1000

\* mutant: the threshold itself is rejected
below_threshold_inclusive(count, min_pixels) == count <= min_pixels

\* minimum-support test of lines 38 / 87
below_threshold(count, min_pixels) == count < min_pixels

\* mutant: the mean rounded to nearest instead of truncated
center_of_rounded(sum, count) == (sum + count \div 2) \div count

\* centroid coordinate of lines 47-48 / 95-96: integer division
center_of(sum, count) == sum \div count

\* lines 42-53 / 91-100: centroid and confidence of the collected pixels
locate(pixels, normalizer) ==
    LET count == Len(pixels)
        sum_x == SumRange([k \in 1..count |-> pixels[k].x], 1, count)
        sum_y == SumRange([k \in 1..count |-> pixels[k].y], 1, count)
    IN  Some([x |-> center_of(sum_x, count),
              y |-> center_of(sum_y, count),
              confidence |-> confidence_of(count, normalizer)])

find_yellow_arrow(img, width, height, overflow_checks) ==
    LET pixels_per_row == width
        total == wrapping_mul(width, height)
    IN  IF overflow_checks /\ mul_overflows(width, height) THEN Panic
        ELSE IF len_lt_total4(Len(img), total) THEN None
        ELSE LET total_pixels == total.hi * Pow16 + total.lo
                 pixels == yellow_pixels(img, total_pixels, pixels_per_row)
             IN  IF below_threshold(Len(pixels), ARROW_MIN_PIXELS) THEN None
                 ELSE locate(pixels, ARROW_NORMALIZER)

find_cyan_highlight(img, width, height, overflow_checks) ==
    LET pixels_per_row == width
        total == wrapping_mul(width, height)
    IN  IF overflow_checks /\ mul_overflows(width, height) THEN Panic
        ELSE IF len_lt_total4(Len(img), total) THEN None
        ELSE LET total_pixels == total.hi * Pow16 + total.lo
                 pixels == cyan_pixels(img, total_pixels, pixels_per_row)
             IN  IF below_threshold(Len(pixels), HIGHLIGHT_MIN_PIXELS) THEN None
                 ELSE locate(pixels, HIGHLIGHT_NORMALIZER)

\* largest index of img_data the scan reads (offset + 2 of the last pixel),
\* -1 when nothing is read
max_read_index(img, width, height, overflow_checks) ==
    LET total == wrapping_mul(width, height)
    IN  IF overflow_checks /\ mul_overflows(width, height) THEN -1
        ELSE IF len_lt_total4(Len(img), total) THEN -1
        ELSE IF total.hi = 0 /\ total.lo = 0 THEN -1
        ELSE (total.hi * Pow16 + total.lo - 1) * 4 + 2

-----------------------------------------------------------------------------
(* Frames handed to the detectors                                          *)

MaxWidth == 6
MaxHeight == 4

Black == <<0, 0, 0>>
Yellow == <<255, 255, 0>>
Cyan == <<0, 255, 255>>

\* colours on and just off the edges of the two colour rules
Palette ==
    {Black, Yellow, Cyan,
     <<201, 201, 79>>, <<200, 255, 0>>, <<255, 200, 0>>, <<255, 255, 80>>,
     <<79, 181, 181>>, <<80, 255, 255>>, <<0, 180, 255>>, <<0, 255, 180>>}

\* a blob: the rectangle x0..x1 by y0..y1 and the row-major run s .. s+k-1
Blob(x0, x1, y0, y1, s, k) ==
    [x0 |-> x0, x1 |-> x1, y0 |-> y0, y1 |-> y1, s |-> s, k |-> k]

InBlob(blob, x, y, i) ==
    \/ (blob.x0 <= x /\ x <= blob.x1 /\ blob.y0 <= y /\ y <= blob.y1)
    \/ (blob.s <= i /\ i < blob.s + blob.k)

\* n bytes of RGBA pixels, width w: the pixels of blob are fg, the others
\* Black, alpha 255
FrameBytes(n, w, fg, blob) ==
    [k \in 1..n |->
        LET i == (k - 1) \div 4
            c == (k - 1) % 4
            col == IF w > 0 /\ InBlob(blob, i % w, i \div w, i) THEN fg ELSE Black
        IN  IF c = 3 THEN 255 ELSE col[c + 1]]

\* a w x h frame with a rectangular blob
RectFrame(w, h, x0, x1, y0, y1, fg) ==
    FrameBytes(w * h * 4, w, fg, Blob(x0, x1, y0, y1, 0, 0))

\* a w x h frame whose pixels s .. s+k-1 (row-major) are fg, with delta
\* bytes more (or fewer) than w*h*4
RunFrame(w, h, s, k, fg, delta) ==
    FrameBytes(w * h * 4 + delta, w, fg, Blob(0, -1, 0, -1, s, k))

DetectArgs(img, w, h, oc) ==
    [img_data |-> img, width |-> w, height |-> h, overflow_checks |-> oc]

Rects(w, h) ==
    {q \in (0..w-1) \X (0..w-1) \X (0..h-1) \X (0..h-1) : q[1] <= q[2] /\ q[3] <= q[4]}

\* every rectangular yellow or cyan blob in every small frame
SmallRectInputs ==
    UNION { { DetectArgs(RectFrame(d[1], d[2], r[1], r[2], r[3], r[4], fg), d[1], d[2], FALSE) :
                r \in Rects(d[1], d[2]), fg \in {Yellow, Cyan} } :
            d \in (1..MaxWidth) \X (1..MaxHeight) }

\* every rectangular blob of every palette colour in the largest small frame
PaletteInputs ==
    { DetectArgs(RectFrame(MaxWidth, MaxHeight, r[1], r[2], r[3], r[4], fg),
                 MaxWidth, MaxHeight, FALSE) :
        r \in Rects(MaxWidth, MaxHeight), fg \in Palette }

\* runs of every length in the largest small frame: every pixel count occurs
RunInputs ==
    LET w == MaxWidth
        h == MaxHeight
    IN  { DetectArgs(RunFrame(w, h, s, k, fg, 0), w, h, oc) :
            s \in 0..2, k \in 0..(w * h - 2), fg \in {Yellow, Cyan}, oc \in BOOLEAN }

\* frames with a zero dimension, and buffers longer or shorter than w*h*4
OddLengthInputs ==
    { DetectArgs(RunFrame(d[1], d[2], 0, d[1] * d[2], fg, d[3]), d[1], d[2], FALSE) :
        d \in {e \in (0..MaxWidth) \X (0..MaxHeight) \X {-4, -1, 0, 3} :
                  e[1] * e[2] * 4 + e[3] >= 0},
        fg \in {Yellow, Cyan} }

\* the frame of test_yellow_detection (lines 110-123) and blobs of other sizes
TestWidth == 100
TestHeight == 100
TestBlobOrigin == 45

BlobSizes ==
    {<<10, 10>>, <<22, 22>>, <<20, 25>>, <<23, 23>>, <<31, 31>>, <<25, 40>>, <<32, 32>>}

LargeInputs ==
    { DetectArgs(RectFrame(TestWidth, TestHeight,
                           TestBlobOrigin, TestBlobOrigin + b[1] - 1,
                           TestBlobOrigin, TestBlobOrigin + b[2] - 1, fg),
                 TestWidth, TestHeight, FALSE) :
        b \in BlobSizes, fg \in {Yellow, Cyan} }

\* dimensions whose product does not fit in u32:
\*   4 * 1073741827 = 2^32 + 12,  4 * 1073741829 = 2^32 + 20,
\*   65536 * 65536 = 2^32,        65537 * 65536 = 2^32 + 65536
OverflowDims ==
    {<<4, 1073741827>>, <<4, 1073741829>>, <<65536, 65536>>, <<65537, 65536>>}

OverflowInputs ==
    { DetectArgs(RunFrame(4, n, 0, 4 * n, fg, 0), d[1], d[2], oc) :
        d \in OverflowDims, n \in {0, 3, 5}, fg \in {Yellow, Cyan}, oc \in BOOLEAN }

DetectInputs ==
    SmallRectInputs \cup PaletteInputs \cup RunInputs \cup OddLengthInputs \cup LargeInputs \cup OverflowInputs

-----------------------------------------------------------------------------
(* The calls                                                               *)

\* the locals of capture_and_analyze and of the parallel scan before they run
Idle ==
    /\ img_data = NoRet
    /\ arrow = NoRet
    /\ highlight = NoRet
    /\ capture_ms = NoRet
    /\ acquired = NoRet
    /\ ran = <<>>
    /\ owner = NoRet
    /\ cursor = NoRet
    /\ emitted = NoRet
    /\ joined = {}
    /\ collected = <<>>

\* lib.rs detect_arrow / detect_highlight: one call of a detector
InitDetect ==
    /\ pc = "call"
    /\ op \in {"detect_arrow", "detect_highlight"}
    /\ args \in DetectInputs
    /\ ret = NoRet
    /\ Idle

Return(v) ==
    /\ pc' = "done"
    /\ ret' = v
    /\ UNCHANGED <<op, args, img_data, arrow, highlight, capture_ms, acquired, ran>>
    /\ UNCHANGED scan_vars

detect_arrow ==
    /\ pc = "call"
    /\ op = "detect_arrow"
    /\ Return(find_yellow_arrow(args.img_data, args.width, args.height,
                                args.overflow_checks))

detect_highlight ==
    /\ pc = "call"
    /\ op = "detect_highlight"
    /\ Return(find_cyan_highlight(args.img_data, args.width, args.height,
                                  args.overflow_checks))

NextDetect == detect_arrow \/ detect_highlight

SpecDetect == InitDetect /\ [][NextDetect]_vars

-----------------------------------------------------------------------------
(* Claims about the detectors                                              *)

DetectDone == pc = "done" /\ op \in {"detect_arrow", "detect_highlight"}

\* Len(img) >= w * h * 4 for the mathematical product, computed by division
LenCoversFrame(len, w, h) ==
    w = 0 \/ h = 0 \/ ((len \div 4) \div w) >= h

\* the colour rules as the specification states them
SpecRule(cue, r, g, b) ==
    IF cue = "detect_arrow" THEN r > 200 /\ g > 200 /\ b < 80
    ELSE r < 80 /\ g > 180 /\ b > 180

SpecMinPixels(cue) == IF cue = "detect_arrow" THEN 10 ELSE 20

SpecNormalizer(cue) == IF cue = "detect_arrow" THEN 500 ELSE 1000

\* the pixel indices among the first n that satisfy the rule of cue
Matched(cue, img, n) ==
    {i \in 0..(n - 1) : SpecRule(cue, img[4 * i + 1], img[4 * i + 2], img[4 * i + 3])}

\* the matched set of the call in progress (the frame must cover w * h pixels)
CallMatched == Matched(op, args.img_data, args.width * args.height)

CallCovered ==
    /\ DetectDone
    /\ LenCoversFrame(Len(args.img_data), args.width, args.height)

\* C1: for a buffer of at least width*height*4 bytes, the detector returns
\* "not found" exactly when fewer than 10 (arrow) / 20 (highlight) of the
\* first width*height pixels satisfy the colour rule; otherwise a Point.
C1_Threshold ==
    CallCovered =>
        /\ (ret = None) <=> (Cardinality(CallMatched) < SpecMinPixels(op))
        /\ (ret # None) => (ret.tag = "Some")

\* a highlight found on exactly 20 matching pixels
C1_Witness ==
    /\ CallCovered
    /\ op = "detect_highlight"
    /\ Cardinality(CallMatched) = 20
    /\ ret.tag = "Some"

RECURSIVE SumOfX(_, _, _)
\* sum of i % w over M, column by column (columns 0..top)
SumOfX(M, w, top) ==
    IF top < 0 THEN 0
    ELSE top * Cardinality({i \in M : i % w = top}) + SumOfX(M, w, top - 1)

RECURSIVE SumOfY(_, _, _)
\* sum of i \div w over M, row by row (rows 0..top)
SumOfY(M, w, top) ==
    IF top < 0 THEN 0
    ELSE top * Cardinality({i \in M : i \div w = top}) + SumOfY(M, w, top - 1)

\* C2: a returned Point has x = floor(sum x / count), y = floor(sum y / count)
\* over the matched set (so it lies in the bounding box of the set, and within
\* the tolerance of test_yellow_detection for its blob), and confidence
\* min(count / N, 1), N = 500 (arrow) / 1000 (highlight), hence in [0, 1].
C2_Centroid ==
    (CallCovered /\ ret.tag = "Some") =>
        LET M == CallMatched
            w == args.width
            count == Cardinality(M)
            sx == SumOfX(M, w, w - 1)
            sy == SumOfY(M, w, args.height - 1)
            p == ret.val
            N == SpecNormalizer(op)
        IN  /\ count > 0
            /\ p.x * count <= sx /\ sx < (p.x + 1) * count
            /\ p.y * count <= sy /\ sy < (p.y + 1) * count
            /\ \E i \in M : i % w <= p.x
            /\ \E i \in M : i % w >= p.x
            /\ \E i \in M : i \div w <= p.y
            /\ \E i \in M : i \div w >= p.y
            /\ p.confidence * N = (IF count < N THEN count ELSE N) * 1000
            /\ 0 <= p.confidence /\ p.confidence <= 1000
            /\ (w = TestWidth /\ count = 100) =>
                   /\ p.x - 50 < 5 /\ 50 - p.x < 5
                   /\ p.y - 50 < 5 /\ 50 - p.y < 5

\* an arrow on more than 500 pixels whose mean is not an integer
C2_Witness ==
    /\ CallCovered
    /\ op = "detect_arrow"
    /\ ret.tag = "Some"
    /\ Cardinality(CallMatched) > 500
    /\ ret.val.confidence = 1000
    /\ SumOfY(CallMatched, args.width, args.height - 1)
           % Cardinality(CallMatched) # 0

\* C3: whenever the buffer is shorter than the mathematical product
\* width*height*4 the detector returns "not found", and no call reads the
\* buffer at an index >= its length, also when width*height exceeds 32 bits.
C3_ShortBufferNotFound ==
    DetectDone =>
        /\ ~LenCoversFrame(Len(args.img_data), args.width, args.height) => ret = None
        /\ max_read_index(args.img_data, args.width, args.height,
                          args.overflow_checks) < Len(args.img_data)

-----------------------------------------------------------------------------
(* integration.rs: validation                                              *)

\* decimal digits of v, at least two of them
Pad2(v) == IF v < 10 THEN "0" \o ToString(v) ELSE ToString(v)

\* decimal digits of v, at least three of them
Pad3(v) == IF v < 100 THEN "0" \o Pad2(v) ELSE ToString(v)

\* format!("{}", c) of an f32 given in thousandths: shortest decimal form
fmt_f32(c) ==
    LET a == IF c < 0 THEN -c ELSE c
        fp == a % 1000
        frac == IF fp = 0 THEN ""
                ELSE IF fp % 100 = 0 THEN "." \o ToString(fp \div 100)
                ELSE IF fp % 10 = 0 THEN "." \o Pad2(fp \div 10)
                ELSE "." \o Pad3(fp)
    IN  (IF c < 0 THEN "-" ELSE "") \o ToString(a \div 1000) \o frac

\* integration.rs lines 226-229
VALID_ACTION_TYPES ==
    {"click", "move", "drag", "key", "scroll", "wait",
     "walk", "interact", "dialogue", "inventory", "camera"}

\* line 244
requires_target == {"click", "interact", "walk", "drag"}

is_some(o) == o.tag = "Some"

\* lines 236-241
action_type_errors(intent) ==
    IF intent.action_type = "" THEN <<"Missing required field: action_type">>
    ELSE IF intent.action_type \notin VALID_ACTION_TYPES
         THEN <<"Invalid action_type: " \o intent.action_type>>
         ELSE <<>>

\* lines 246-250
has_target(target) ==
    \/ is_some(target.x)
    \/ is_some(target.name)
    \/ is_some(target.ui_element)
    \/ is_some(target.npc_id)
    \/ is_some(target.object_id)

\* lines 243-258
target_errors(intent) ==
    IF intent.action_type \in requires_target /\ ~has_target(intent.target)
    THEN <<"Action type '" \o intent.action_type \o "' requires target">>
    ELSE <<>>

\* lines 260-263 (confidence in thousandths)
confidence_errors(intent) ==
    IF intent.confidence < 0 \/ intent.confidence > 1000
    THEN <<"Confidence out of range: " \o fmt_f32(intent.confidence)>>
    ELSE <<>>

\* mutant: validation stops at the first failed rule
intent_errors_first_only(intent) ==
    IF action_type_errors(intent) # <<>> THEN action_type_errors(intent)
    ELSE IF target_errors(intent) # <<>> THEN target_errors(intent)
    ELSE confidence_errors(intent)

\* the errors vector of validate_intent, in push order
intent_errors(intent) ==
    action_type_errors(intent) \o target_errors(intent) \o confidence_errors(intent)

\* lines 232-270; elapsed_ms is start.elapsed().as_millis()
validate_intent(intent, elapsed_ms) ==
    [valid |-> intent_errors(intent) = <<>>,
     errors |-> intent_errors(intent),
     validation_ms |-> elapsed_ms]

\* mutant: validation stops at the first failed check
snapshot_errors_first_only(snapshot) ==
    IF snapshot.capture_id = "" THEN <<"Missing capture_id">>
    ELSE IF snapshot.timestamp = "" THEN <<"Missing timestamp">>
    ELSE IF snapshot.session_id = "" THEN <<"Missing session_id">>
    ELSE IF snapshot.client.bounds.width <= 0 \/ snapshot.client.bounds.height <= 0
         THEN <<"Invalid client bounds">>
         ELSE <<>>

\* the errors vector of validate_snapshot, in push order (lines 275-291)
snapshot_errors(snapshot) ==
    (IF snapshot.capture_id = "" THEN <<"Missing capture_id">> ELSE <<>>)
    \o (IF snapshot.timestamp = "" THEN <<"Missing timestamp">> ELSE <<>>)
    \o (IF snapshot.session_id = "" THEN <<"Missing session_id">> ELSE <<>>)
    \o (IF snapshot.client.bounds.width <= 0 \/ snapshot.client.bounds.height <= 0
        THEN <<"Invalid client bounds">> ELSE <<>>)

\* lines 273-298
validate_snapshot(snapshot, elapsed_ms) ==
    [valid |-> snapshot_errors(snapshot) = <<>>,
     errors |-> snapshot_errors(snapshot),
     validation_ms |-> elapsed_ms]

-----------------------------------------------------------------------------
(* integration.rs: snapshot schema types and their Default values          *)

\* a u64 as four 16-bit limbs, most significant first
U64(n) == <<0, 0, n \div Pow16, n % Pow16>>

\* a u32 as two 16-bit limbs
U32(n) == <<n \div Pow16, n % Pow16>>

\* the cast `v as u32` of a u64: the low 32 bits
as_u32(v) == <<v[3], v[4]>>

DefaultBounds == [x |-> 0, y |-> 0, width |-> 0, height |-> 0]

DefaultWorldCoord == [x |-> 0, y |-> 0, plane |-> 0]

DefaultRuneliteData ==
    [fresh |-> FALSE, tutorial_progress |-> 0, inventory_count |-> 0,
     camera_direction |-> "", npcs_on_screen |-> <<>>,
     player_screen |-> None, player_world |-> None]

DefaultSnapshot ==
    [capture_id |-> "", timestamp |-> "", version |-> 0, stale |-> FALSE,
     session_id |-> "",
     client |-> [window_title |-> "", bounds |-> DefaultBounds, focused |-> FALSE,
                 scale |-> 0, fps |-> 0, capture_latency_ms |-> U32(0)],
     roi |-> [minimap |-> DefaultBounds, inventory |-> DefaultBounds,
              chatbox |-> DefaultBounds, game_view |-> DefaultBounds],
     ui |-> [open_interface |-> "", selected_tab |-> "", cursor_state |-> "",
             hover_text |-> "", elements |-> <<>>, dialogue_options |-> <<>>],
     ocr |-> <<>>,
     cues |-> [animation_state |-> "", highlight_state |-> "", modal_state |-> "",
               hover_text |-> "", chat_prompt |-> ""],
     derived |-> [location |-> [region |-> "", subarea |-> "",
                                coordinates |-> DefaultWorldCoord],
                  activity |-> [activity_type |-> "", state |-> "", progress |-> 0],
                  combat |-> [state |-> ""]],
     account |-> [name |-> "", membership_status |-> "", skills |-> <<>>,
                  inventory |-> <<>>, equipment |-> <<>>, resources |-> [gp |-> 0]],
     runelite_data |-> DefaultRuneliteData]

-----------------------------------------------------------------------------
(* Validation calls                                                        *)

MaxElapsedMs == 1

ActionTypes == VALID_ACTION_TYPES \cup {"", "teleport", "Click"}

Opt(present, v) == IF present THEN Some(v) ELSE None

Targets ==
    { [x |-> Opt(b[1], 100), y |-> Opt(b[2], 200), name |-> Opt(b[3], "Banker"),
       ui_element |-> Opt(b[4], "inventory"), npc_id |-> Opt(b[5], 3010),
       object_id |-> Opt(b[6], 9398)] :
        b \in BOOLEAN \X BOOLEAN \X BOOLEAN \X BOOLEAN \X BOOLEAN \X BOOLEAN }

\* confidences in thousandths, on and around the ends of [0, 1]
Confidences == {-1, 0, 900, 1000, 1001, 1500}

Intents ==
    { [intent_id |-> "test_1", action_type |-> a, target |-> t, confidence |-> c,
       required_cues |-> <<>>,
       gating |-> [require_hover |-> FALSE, require_visible |-> FALSE, timeout_ms |-> 0],
       payload |-> <<>>] :
        a \in ActionTypes, t \in Targets, c \in Confidences }

Extents == {-1, 0, 1, 765}

Snapshots ==
    { [DefaultSnapshot EXCEPT !.capture_id = f[1], !.timestamp = f[2],
                              !.session_id = f[3],
                              !.client.bounds.width = f[4],
                              !.client.bounds.height = f[5]] :
        f \in {"", "cap_1"} \X {"", "2024-01-01T00:00:00Z"} \X {"", "sess_1"}
              \X Extents \X Extents }

InitValidate ==
    /\ pc = "call"
    /\ \/ (op = "validate_intent" /\ args \in Intents)
       \/ (op = "validate_snapshot" /\ args \in Snapshots)
    /\ ret = NoRet
    /\ Idle

\* lib.rs validate_action_intent, after the JSON record is decoded
validate_action_intent ==
    /\ pc = "call"
    /\ op = "validate_intent"
    /\ \E ms \in 0..MaxElapsedMs : Return(validate_intent(args, ms))

\* lib.rs validate_snapshot_schema, after the JSON record is decoded
validate_snapshot_schema ==
    /\ pc = "call"
    /\ op = "validate_snapshot"
    /\ \E ms \in 0..MaxElapsedMs : Return(validate_snapshot(args, ms))

NextValidate == validate_action_intent \/ validate_snapshot_schema

SpecValidate == InitValidate /\ [][NextValidate]_vars

Range(seq) == {seq[k] : k \in 1..Len(seq)}

IntentDone == pc = "done" /\ op = "validate_intent"

\* the rules of validate_intent as the specification states them
Rule1Missing == args.action_type = ""

Rule1Invalid ==
    /\ args.action_type # ""
    /\ args.action_type \notin {"click", "move", "drag", "key", "scroll", "wait", "walk",
                                "interact", "dialogue", "inventory", "camera"}

Rule2NoTarget ==
    /\ args.action_type \in {"click", "interact", "walk", "drag"}
    /\ \A f \in {"x", "name", "ui_element", "npc_id", "object_id"} :
           args.target[f] = None

Rule3OutOfRange == args.confidence < 0 \/ args.confidence > 1000

Count(b) == IF b THEN 1 ELSE 0

\* C4: validate_intent reports every violated rule (no short-circuit) and
\* valid == (errors is empty): empty action_type -> "Missing required field",
\* unrecognized -> "Invalid action_type", a target-requiring action with no
\* target field -> "requires target" (none when target.x is populated),
\* confidence outside [0,1] -> out-of-range error whatever the other fields,
\* and no violated rule -> no error.
C4_IntentRules ==
    IntentDone =>
        LET errs == Range(ret.errors)
            missing == "Missing required field: action_type"
            invalid == "Invalid action_type: " \o args.action_type
            target == "Action type '" \o args.action_type \o "' requires target"
            range == "Confidence out of range: " \o fmt_f32(args.confidence)
        IN  /\ ret.valid <=> (ret.errors = <<>>)
            /\ (missing \in errs) <=> Rule1Missing
            /\ (invalid \in errs) <=> Rule1Invalid
            /\ (target \in errs) <=> Rule2NoTarget
            /\ (args.action_type \in {"click", "interact", "walk", "drag"}
                    /\ args.target.x # None) => target \notin errs
            /\ (range \in errs) <=> Rule3OutOfRange
            /\ missing # invalid
            /\ Len(ret.errors) = Count(Rule1Missing) + Count(Rule1Invalid)
                                 + Count(Rule2NoTarget) + Count(Rule3OutOfRange)

\* an intent breaking two rules at once: both errors are reported
C4_Witness ==
    /\ IntentDone
    /\ args.action_type = "click"
    /\ args.target.y # None
    /\ args.confidence = 1500
    /\ Len(ret.errors) = 2
    /\ ~ret.valid

SnapshotDone == pc = "done" /\ op = "validate_snapshot"

\* C9: validate_snapshot is valid exactly when capture_id, timestamp and
\* session_id are non-empty and client.bounds width and height are > 0; every
\* failed check is reported in the same result, and valid == (errors empty).
C9_SnapshotChecks ==
    SnapshotDone =>
        LET errs == Range(ret.errors)
            bad_bounds == ~(args.client.bounds.width > 0 /\ args.client.bounds.height > 0)
        IN  /\ ret.valid <=> (ret.errors = <<>>)
            /\ ret.valid <=> /\ args.capture_id # ""
                             /\ args.timestamp # ""
                             /\ args.session_id # ""
                             /\ ~bad_bounds
            /\ ("Missing capture_id" \in errs) <=> (args.capture_id = "")
            /\ ("Missing timestamp" \in errs) <=> (args.timestamp = "")
            /\ ("Missing session_id" \in errs) <=> (args.session_id = "")
            /\ ("Invalid client bounds" \in errs) <=> bad_bounds
            /\ Len(ret.errors) = Count(args.capture_id = "") + Count(args.timestamp = "")
                                 + Count(args.session_id = "") + Count(bad_bounds)

\* a snapshot failing every check: four errors in one result
C9_Witness ==
    /\ SnapshotDone
    /\ args.capture_id = ""
    /\ args.timestamp = ""
    /\ args.session_id = ""
    /\ args.client.bounds.height = 0
    /\ Len(ret.errors) = 4
    /\ ~ret.valid

-----------------------------------------------------------------------------
(* integration.rs: pipeline timing                                         *)

\* lines 14-19
RSPROX_POLL_MS == 50
PERCEPTION_MS == 100
DECISION_MS == 200
EXECUTION_MS == 150
VERIFICATION_MS == 50
TOTAL_BUDGET_MS == 600

\* lines 376-383
stage_budget(stage) ==
    CASE stage = "rsprox_poll" -> RSPROX_POLL_MS
      [] stage = "perception" -> PERCEPTION_MS
      [] stage = "decision" -> DECISION_MS
      [] stage = "execution" -> EXECUTION_MS
      [] stage = "verification" -> VERIFICATION_MS
      [] OTHER -> TOTAL_BUDGET_MS

\* mutant: a latency equal to the budget counts as over budget
is_over_budget_inclusive(latency_ms, budget) == latency_ms >= budget

\* line 389
is_over_budget(latency_ms, budget) == latency_ms > budget

\* lines 375-391 (latency_ms: a u64 below 2^31, only compared)
check_stage_timing(stage, latency_ms) ==
    [stage_name |-> stage,
     latency_ms |-> latency_ms,
     budget_ms |-> stage_budget(stage),
     over_budget |-> is_over_budget(latency_ms, stage_budget(stage))]

\* lib.rs lines 97-104: the JSON object built by json!, key -> value
budgets ==
    [rsprox_poll_ms |-> RSPROX_POLL_MS,
     perception_ms |-> PERCEPTION_MS,
     decision_ms |-> DECISION_MS,
     execution_ms |-> EXECUTION_MS,
     verification_ms |-> VERIFICATION_MS,
     total_budget_ms |-> TOTAL_BUDGET_MS]

MaxLatency == 601

\* stage names passed to check_timing: the names of lines 377-381, "total",
\* unrecognized names, and the keys of the table of get_timing_budgets
Stages ==
    {"rsprox_poll", "perception", "decision", "execution", "verification", "total",
     "", "Perception", "capture"} \cup DOMAIN budgets

InitTiming ==
    /\ pc = "call"
    /\ \/ (op = "check_timing" /\ args \in [stage : Stages, latency_ms : 0..MaxLatency])
       \/ (op = "get_timing_budgets" /\ args = <<>>)
    /\ ret = NoRet
    /\ Idle

\* lib.rs check_timing
check_timing ==
    /\ pc = "call"
    /\ op = "check_timing"
    /\ Return(check_stage_timing(args.stage, args.latency_ms))

\* lib.rs get_timing_budgets (lines 95-106); the returned string is the JSON
\* text of the object, carried here as the object
get_timing_budgets ==
    /\ pc = "call"
    /\ op = "get_timing_budgets"
    /\ Return(budgets)

NextTiming == check_timing \/ get_timing_budgets

SpecTiming == InitTiming /\ [][NextTiming]_vars

\* the budget table of the specification
SpecBudget(stage) ==
    CASE stage = "rsprox_poll" -> 50
      [] stage = "perception" -> 100
      [] stage = "decision" -> 200
      [] stage = "execution" -> 150
      [] stage = "verification" -> 50
      [] stage = "total" -> 600
      [] OTHER -> 600

\* C5: check_stage_timing returns the table's budget for the stage name (600
\* for an unrecognized name), echoes stage_name and latency_ms, and sets
\* over_budget == (latency_ms > budget_ms): a latency equal to the budget is
\* not over budget.
C5_StageTiming ==
    (pc = "done" /\ op = "check_timing") =>
        /\ ret.budget_ms = SpecBudget(args.stage)
        /\ ret.stage_name = args.stage
        /\ ret.latency_ms = args.latency_ms
        /\ ret.over_budget <=> (args.latency_ms > ret.budget_ms)
        /\ (args.latency_ms = SpecBudget(args.stage)) => ~ret.over_budget

\* the decision stage measured at exactly its budget
C5_Witness ==
    /\ pc = "done"
    /\ op = "check_timing"
    /\ args.stage = "decision"
    /\ args.latency_ms = 200
    /\ ret.budget_ms = 200
    /\ ~ret.over_budget

\* the stage names of the budget table of the specification
StageNames ==
    {"rsprox_poll", "perception", "decision", "execution", "verification", "total"}

BudgetsDone == pc = "done" /\ op = "get_timing_budgets"

\* C12: the table returned by get_timing_budgets is keyed by the stage
\* names rsprox_poll, perception, decision, execution, verification, total,
\* and for every key k of the table and any latency
\* check_stage_timing(k, latency).budget_ms is the table's value for k.
C12_BudgetsByStageName ==
    BudgetsDone =>
        /\ DOMAIN ret = StageNames
        /\ \A k \in DOMAIN ret : \A latency \in 0..MaxLatency :
               check_stage_timing(k, latency).budget_ms = ret[k]

-----------------------------------------------------------------------------
(* integration.rs: region and tutorial phase lookup                        *)

\* mutant: the upper bounds of the rectangles are exclusive
infer_region_exclusive(x, y) ==
    IF x >= 3050 /\ x < 3150 /\ y >= 3050 /\ y < 3150 THEN "Tutorial Island"
    ELSE IF x >= 3200 /\ x < 3250 /\ y >= 3200 /\ y < 3250 THEN "Lumbridge"
    ELSE IF x >= 3180 /\ x < 3290 /\ y >= 3380 /\ y < 3500 THEN "Varrock"
    ELSE IF x >= 2940 /\ x < 3040 /\ y >= 3310 /\ y < 3400 THEN "Falador"
    ELSE IF x >= 3080 /\ x < 3120 /\ y >= 3230 /\ y < 3280 THEN "Draynor"
    ELSE IF x >= 3270 /\ x < 3330 /\ y >= 3140 /\ y < 3200 THEN "Al Kharid"
    ELSE IF x >= 3080 /\ x < 3110 /\ y >= 3480 /\ y < 3520 THEN "Edgeville"
    ELSE IF x >= 3070 /\ x < 3110 /\ y >= 3410 /\ y < 3440 THEN "Barbarian Village"
    ELSE "unknown"

\* lines 305-340
infer_region(x, y) ==
    IF x >= 3050 /\ x <= 3150 /\ y >= 3050 /\ y <= 3150 THEN "Tutorial Island"
    ELSE IF x >= 3200 /\ x <= 3250 /\ y >= 3200 /\ y <= 3250 THEN "Lumbridge"
    ELSE IF x >= 3180 /\ x <= 3290 /\ y >= 3380 /\ y <= 3500 THEN "Varrock"
    ELSE IF x >= 2940 /\ x <= 3040 /\ y >= 3310 /\ y <= 3400 THEN "Falador"
    ELSE IF x >= 3080 /\ x <= 3120 /\ y >= 3230 /\ y <= 3280 THEN "Draynor"
    ELSE IF x >= 3270 /\ x <= 3330 /\ y >= 3140 /\ y <= 3200 THEN "Al Kharid"
    ELSE IF x >= 3080 /\ x <= 3110 /\ y >= 3480 /\ y <= 3520 THEN "Edgeville"
    ELSE IF x >= 3070 /\ x <= 3110 /\ y >= 3410 /\ y <= 3440 THEN "Barbarian Village"
    ELSE "unknown"

\* mutant: the arm 10..=19 is missing, leaving a gap in the ranges
infer_tutorial_phase_gap(varbit_281) ==
    IF varbit_281 = 0 THEN "character_creation"
    ELSE IF 1 <= varbit_281 /\ varbit_281 <= 9 THEN "gielinor_guide"
    ELSE IF 20 <= varbit_281 /\ varbit_281 <= 69 THEN "survival_expert"
    ELSE IF 70 <= varbit_281 /\ varbit_281 <= 119 THEN "master_chef"
    ELSE IF 120 <= varbit_281 /\ varbit_281 <= 169 THEN "quest_guide"
    ELSE IF 170 <= varbit_281 /\ varbit_281 <= 229 THEN "mining_instructor"
    ELSE IF 230 <= varbit_281 /\ varbit_281 <= 269 THEN "combat_instructor"
    ELSE IF 270 <= varbit_281 /\ varbit_281 <= 309 THEN "financial_advisor"
    ELSE IF 310 <= varbit_281 /\ varbit_281 <= 399 THEN "brother_brace"
    ELSE IF 400 <= varbit_281 /\ varbit_281 <= 499 THEN "magic_instructor"
    ELSE IF 500 <= varbit_281 /\ varbit_281 <= 599 THEN "magic_instructor_final"
    ELSE IF 600 <= varbit_281 THEN "completed"
    ELSE "unknown"

\* lines 343-360: the match arms in order
infer_tutorial_phase(varbit_281) ==
    IF varbit_281 = 0 THEN "character_creation"
    ELSE IF 1 <= varbit_281 /\ varbit_281 <= 9 THEN "gielinor_guide"
    ELSE IF 10 <= varbit_281 /\ varbit_281 <= 19 THEN "gielinor_guide"
    ELSE IF 20 <= varbit_281 /\ varbit_281 <= 69 THEN "survival_expert"
    ELSE IF 70 <= varbit_281 /\ varbit_281 <= 119 THEN "master_chef"
    ELSE IF 120 <= varbit_281 /\ varbit_281 <= 169 THEN "quest_guide"
    ELSE IF 170 <= varbit_281 /\ varbit_281 <= 229 THEN "mining_instructor"
    ELSE IF 230 <= varbit_281 /\ varbit_281 <= 269 THEN "combat_instructor"
    ELSE IF 270 <= varbit_281 /\ varbit_281 <= 309 THEN "financial_advisor"
    ELSE IF 310 <= varbit_281 /\ varbit_281 <= 399 THEN "brother_brace"
    ELSE IF 400 <= varbit_281 /\ varbit_281 <= 499 THEN "magic_instructor"
    ELSE IF 500 <= varbit_281 /\ varbit_281 <= 599 THEN "magic_instructor_final"
    ELSE IF 600 <= varbit_281 THEN "completed"
    ELSE "unknown"

MaxVarbit == 700

\* the largest i32
I32Max == 2147483647

Varbits == ((-MaxVarbit)..MaxVarbit) \cup {I32Max, -I32Max - 1}

\* the edges of the region rectangles of lines 307-335
RegionXEdges ==
    {3050, 3150, 3200, 3250, 3180, 3290, 2940, 3040, 3080, 3120, 3270, 3330, 3110, 3070}

RegionYEdges ==
    {3050, 3150, 3200, 3250, 3380, 3500, 3310, 3400, 3230, 3280, 3140, 3480, 3520,
     3410, 3440}

Around(edges) == UNION {{e - 1, e, e + 1} : e \in edges}

\* the coordinates asserted by test_infer_region (lines 480-486)
RegionTestXs == {3100, 3222, 3200, 0}

RegionTestYs == {3100, 3218, 3400, 0}

\* every point on, just inside and just outside an edge, the tested
\* coordinates, and far-away points
RegionPoints ==
    (Around(RegionXEdges) \cup RegionTestXs \cup {-1, I32Max, -I32Max - 1})
        \X (Around(RegionYEdges) \cup RegionTestYs \cup {-1, I32Max, -I32Max - 1})

InitLookup ==
    /\ pc = "call"
    /\ \/ (op = "get_tutorial_phase" /\ args \in [varbit_281 : Varbits])
       \/ (op = "get_region" /\ args \in {[x |-> q[1], y |-> q[2]] : q \in RegionPoints})
    /\ ret = NoRet
    /\ Idle

\* lib.rs get_tutorial_phase
get_tutorial_phase ==
    /\ pc = "call"
    /\ op = "get_tutorial_phase"
    /\ Return(infer_tutorial_phase(args.varbit_281))

\* lib.rs get_region
get_region ==
    /\ pc = "call"
    /\ op = "get_region"
    /\ Return(infer_region(args.x, args.y))

NextLookup == get_tutorial_phase \/ get_region

SpecLookup == InitLookup /\ [][NextLookup]_vars

\* the phase table of the specification: <<first, last, phase>>, contiguous
SpecPhases ==
    <<  <<0, 0, "character_creation">>, <<1, 19, "gielinor_guide">>,
        <<20, 69, "survival_expert">>, <<70, 119, "master_chef">>,
        <<120, 169, "quest_guide">>, <<170, 229, "mining_instructor">>,
        <<230, 269, "combat_instructor">>, <<270, 309, "financial_advisor">>,
        <<310, 399, "brother_brace">>, <<400, 499, "magic_instructor">>,
        <<500, 599, "magic_instructor_final">>  >>

\* C10: infer_tutorial_phase maps every integer >= 0 to exactly one defined
\* phase, the ranges 0, 1..19, 20..69, ..., 500..599 leaving no gap, every
\* value >= 600 to "completed" and every negative value to "unknown"; no
\* non-negative value maps to "unknown".
C10_TutorialPhase ==
    (pc = "done" /\ op = "get_tutorial_phase") =>
        LET v == args.varbit_281
        IN  /\ \A k \in 1..Len(SpecPhases) :
                   (SpecPhases[k][1] <= v /\ v <= SpecPhases[k][2]) => ret = SpecPhases[k][3]
            /\ \A k \in 1..(Len(SpecPhases) - 1) : SpecPhases[k + 1][1] = SpecPhases[k][2] + 1
            /\ v >= 600 => ret = "completed"
            /\ v < 0 => ret = "unknown"
            /\ v >= 0 => ret # "unknown"
            /\ (v >= 0 /\ v < 600) => \E k \in 1..Len(SpecPhases) : ret = SpecPhases[k][3]

\* the last value of the second range, reached through the arm 10..=19
C10_Witness ==
    /\ pc = "done"
    /\ op = "get_tutorial_phase"
    /\ args.varbit_281 = 19
    /\ ret = "gielinor_guide"

\* the region table of lines 307-335 as data, in source order:
\* <<min x, max x, min y, max y, name>>
RegionTable ==
    <<  <<3050, 3150, 3050, 3150, "Tutorial Island">>,
        <<3200, 3250, 3200, 3250, "Lumbridge">>,
        <<3180, 3290, 3380, 3500, "Varrock">>,
        <<2940, 3040, 3310, 3400, "Falador">>,
        <<3080, 3120, 3230, 3280, "Draynor">>,
        <<3270, 3330, 3140, 3200, "Al Kharid">>,
        <<3080, 3110, 3480, 3520, "Edgeville">>,
        <<3070, 3110, 3410, 3440, "Barbarian Village">>  >>

\* the point (x, y) lies in the rectangle r, bounds inclusive
InRect(r, x, y) == r[1] <= x /\ x <= r[2] /\ r[3] <= y /\ y <= r[4]

\* the indices of the rectangles that contain (x, y)
Containing(x, y) == {k \in 1..Len(RegionTable) : InRect(RegionTable[k], x, y)}

\* the rectangles r and q share a point
RectsMeet(r, q) ==
    /\ r[1] <= q[2] /\ q[1] <= r[2]
    /\ r[3] <= q[4] /\ q[3] <= r[4]

\* the name found when the table is evaluated in the order given by the
\* sequence of indices order: the first rectangle of that order containing
\* the point, "unknown" when none does
RECURSIVE FirstMatch(_, _, _)
FirstMatch(order, x, y) ==
    IF order = <<>> THEN "unknown"
    ELSE IF InRect(RegionTable[Head(order)], x, y) THEN RegionTable[Head(order)][5]
    ELSE FirstMatch(Tail(order), x, y)

SourceOrder == [k \in 1..Len(RegionTable) |-> k]

ReverseOrder == [k \in 1..Len(RegionTable) |-> Len(RegionTable) + 1 - k]

\* the table taken from its j-th entry on, wrapping around
RotatedOrder(j) ==
    [k \in 1..Len(RegionTable) |-> ((j + k - 2) % Len(RegionTable)) + 1]

\* C11: infer_region returns the name of the first rectangle of the ordered
\* table that contains (x, y), bounds inclusive, and "unknown" when no
\* rectangle contains it; the eight rectangles are pairwise disjoint, so at
\* most one contains the point and evaluating the table in another order
\* (reversed, or started from any entry) gives the same name.
C11_RegionFirstMatch ==
    (pc = "done" /\ op = "get_region") =>
        LET x == args.x
            y == args.y
        IN  /\ ret = FirstMatch(SourceOrder, x, y)
            /\ (Containing(x, y) = {}) <=> (ret = "unknown")
            /\ Cardinality(Containing(x, y)) <= 1
            /\ \A k \in Containing(x, y) : ret = RegionTable[k][5]
            /\ \A j, k \in 1..Len(RegionTable) :
                   j # k => ~RectsMeet(RegionTable[j], RegionTable[k])
            /\ ret = FirstMatch(ReverseOrder, x, y)
            /\ \A j \in 1..Len(RegionTable) : ret = FirstMatch(RotatedOrder(j), x, y)

\* the inclusive upper corner of the second rectangle of the table
C11_Witness ==
    /\ pc = "done"
    /\ op = "get_region"
    /\ args.x = 3250
    /\ args.y = 3250
    /\ Containing(args.x, args.y) = {2}
    /\ ret = "Lumbridge"

-----------------------------------------------------------------------------
(* integration.rs: merge_snapshot_data                                     *)

\* mutant: the region is looked up with x and y exchanged
set_location_swapped(snapshot, runelite) ==
    IF is_some(runelite.player_world)
    THEN LET pw == runelite.player_world.val
         IN  [snapshot EXCEPT
                !.derived.location.coordinates = [x |-> pw[1], y |-> pw[2], plane |-> pw[3]],
                !.derived.location.region = infer_region(pw[2], pw[1])]
    ELSE snapshot

\* lines 415-419
set_location(snapshot, runelite) ==
    IF is_some(runelite.player_world)
    THEN LET pw == runelite.player_world.val
         IN  [snapshot EXCEPT
                !.derived.location.coordinates = [x |-> pw[1], y |-> pw[2], plane |-> pw[3]],
                !.derived.location.region = infer_region(pw[1], pw[2])]
    ELSE snapshot

\* mutant: the highlight is tested before the arrow
set_cues_highlight_first(snapshot, arrow_pt, highlight_pt) ==
    IF is_some(highlight_pt) THEN [snapshot EXCEPT !.cues.highlight_state = "object"]
    ELSE IF is_some(arrow_pt) THEN [snapshot EXCEPT !.cues.highlight_state = "arrow"]
    ELSE snapshot

\* lines 421-426
set_cues(snapshot, arrow_pt, highlight_pt) ==
    IF is_some(arrow_pt) THEN [snapshot EXCEPT !.cues.highlight_state = "arrow"]
    ELSE IF is_some(highlight_pt) THEN [snapshot EXCEPT !.cues.highlight_state = "object"]
    ELSE snapshot

\* lines 403-432
merge_snapshot_data(runelite, arrow_pt, highlight_pt, capture) ==
    LET s0 == [DefaultSnapshot EXCEPT !.runelite_data = runelite,
                                      !.stale = ~runelite.fresh]
        s1 == set_location(s0, runelite)
        s2 == set_cues(s1, arrow_pt, highlight_pt)
    IN  [s2 EXCEPT !.client.capture_latency_ms = as_u32(capture)]

\* world positions: inside, on the corner of, and outside the regions
WorldPositions ==
    {<<3100, 3100>>, <<3222, 3218>>, <<3200, 3400>>, <<3000, 3350>>, <<3100, 3250>>,
     <<3300, 3170>>, <<3090, 3500>>, <<3090, 3420>>, <<3050, 3050>>, <<3151, 3100>>,
     <<0, 0>>, <<-1, -1>>}

PlayerWorlds ==
    {None} \cup {Some(<<q[1], q[2], plane>>) : q \in WorldPositions, plane \in {0, 1}}

\* capture durations in milliseconds: 0, 42, 2^16, 2^32 + 5, 2^64 - 1
CaptureDurations ==
    {U64(0), U64(42), <<0, 0, 1, 0>>, <<0, 1, 0, 5>>, <<65535, 65535, 65535, 65535>>}

MergeInputs ==
    { [runelite |-> [DefaultRuneliteData EXCEPT !.fresh = f, !.player_world = pw],
       arrow |-> a, highlight |-> h, capture_ms |-> c] :
        f \in BOOLEAN, pw \in PlayerWorlds,
        a \in {None, Some(<<50, 50, 200>>)},
        h \in {None, Some(<<10, 20, 1000>>)},
        c \in CaptureDurations }

InitMerge ==
    /\ pc = "call"
    /\ op = "merge_snapshot_data"
    /\ args \in MergeInputs
    /\ ret = NoRet
    /\ Idle

merge_snapshot ==
    /\ pc = "call"
    /\ op = "merge_snapshot_data"
    /\ Return(merge_snapshot_data(args.runelite, args.arrow, args.highlight,
                                  args.capture_ms))

NextMerge == merge_snapshot

SpecMerge == InitMerge /\ [][NextMerge]_vars

MergeDone == pc = "done" /\ op = "merge_snapshot_data"

\* C6: cues.highlight_state of the merged snapshot is "arrow" whenever an
\* arrow is supplied (also with a highlight), "object" exactly when a
\* highlight is supplied and no arrow is, and empty exactly when neither is.
C6_CuePrecedence ==
    MergeDone =>
        LET st == ret.cues.highlight_state
        IN  /\ (args.arrow # None) => st = "arrow"
            /\ (st = "object") <=> (args.highlight # None /\ args.arrow = None)
            /\ (st = "") <=> (args.highlight = None /\ args.arrow = None)

\* arrow and highlight supplied together
C6_Witness ==
    /\ MergeDone
    /\ args.arrow # None
    /\ args.highlight # None
    /\ ret.cues.highlight_state = "arrow"

\* C7 as stated: in every merged snapshot, with or without a world position,
\* derived.location.region is infer_region of derived.location.coordinates.
C7_RegionOfCoordinates ==
    MergeDone =>
        ret.derived.location.region =
            infer_region(ret.derived.location.coordinates.x,
                         ret.derived.location.coordinates.y)

\* C7 amended: with a world position (x, y, plane) the coordinates are that
\* triple and the region is infer_region(x, y) of those coordinates; without
\* one the coordinates stay (0, 0, 0) and the region stays empty.
C7_RegionWhenPositioned ==
    MergeDone =>
        LET loc == ret.derived.location
            pw == args.runelite.player_world
        IN  IF pw # None
            THEN /\ loc.coordinates = [x |-> pw.val[1], y |-> pw.val[2], plane |-> pw.val[3]]
                 /\ loc.region = infer_region(loc.coordinates.x, loc.coordinates.y)
            ELSE /\ loc.coordinates = [x |-> 0, y |-> 0, plane |-> 0]
                 /\ loc.region = ""

\* a positioned snapshot inside a named region
C7_Witness ==
    /\ MergeDone
    /\ args.runelite.player_world # None
    /\ ret.derived.location.coordinates = [x |-> 3200, y |-> 3400, plane |-> 1]
    /\ ret.derived.location.region = "Varrock"

\* the u64 with the same numeric value as the u32 v (limbs, most significant first)
WidenU32(v) == <<0, 0, v[1], v[2]>>

\* C13: for every supplied capture duration capture_ms, a u64 millisecond
\* count, the merged snapshot has client.capture_latency_ms equal to
\* capture_ms, also when capture_ms does not fit in 32 bits.
C13_CaptureLatencyIsDuration ==
    MergeDone => WidenU32(ret.client.capture_latency_ms) = args.capture_ms

-----------------------------------------------------------------------------
(* capture.rs: capture_region and capture_and_analyze                      *)

\* a w x h frame whose first ky pixels are yellow and next kc pixels cyan,
\* with delta bytes more (or fewer) than w*h*4
TwoCueFrame(w, h, ky, kc, delta) ==
    [k \in 1..(w * h * 4 + delta) |->
        LET i == (k - 1) \div 4
            c == (k - 1) % 4
            col == IF i < ky THEN Yellow ELSE IF i < ky + kc THEN Cyan ELSE Black
        IN  IF c = 3 THEN 255 ELSE col[c + 1]]

\* what the screen may show in a captured w x h area
ScreenFrames(w, h) ==
    { TwoCueFrame(w, h, q[1], q[2], q[3]) :
        q \in {0, 9, 10} \X {0, 19, 20} \X {-4, 0} }

\* lines 8-30: the results capture_region can give.  Off Windows it always
\* fails; on Windows it fails when the screens cannot be listed, when there
\* is none, when the area cannot be captured, and otherwise gives the frame.
capture_region(x, y, width, height, target_os) ==
    IF target_os = "windows"
    THEN {Err("Screen::all failed"), Err("No screens found"), Err("capture_area failed")}
         \cup {Ok(f) : f \in ScreenFrames(width, height)}
    ELSE {Err("Screen capture only supported on Windows")}

\* arrow.map(|(x, y, c)| Point { x, y, confidence: c }), lines 47-48
to_point(found) ==
    IF is_some(found)
    THEN Some([x |-> found.val.x, y |-> found.val.y, confidence |-> found.val.confidence])
    ELSE None

CaptureRequests ==
    [x : {0, -8}, y : {0, 4}, width : {8}, height : {4, 5},
     target_os : {"windows", "linux"}, overflow_checks : BOOLEAN]

InitCapture ==
    /\ pc = "capture"
    /\ op = "capture_and_analyze"
    /\ args \in CaptureRequests
    /\ ret = NoRet
    /\ Idle

\* mutant: a failed capture is replaced by an empty frame and analysis goes on
capture_swallowing_error ==
    /\ pc = "capture"
    /\ \E r \in capture_region(args.x, args.y, args.width, args.height, args.target_os),
          ms \in 0..MaxElapsedMs :
          /\ acquired' = r
          /\ img_data' = IF r.tag = "Err" THEN Some(<<>>) ELSE Some(r.val)
          /\ capture_ms' = U64(ms)
          /\ pc' = "detect_arrow"
          /\ UNCHANGED <<op, args, ret, arrow, highlight, ran>>
          /\ UNCHANGED scan_vars

\* lines 34-36: let img_data = capture_region(x, y, width, height)?;
capture ==
    /\ pc = "capture"
    /\ \E r \in capture_region(args.x, args.y, args.width, args.height, args.target_os),
          ms \in 0..MaxElapsedMs :
          /\ acquired' = r
          /\ IF r.tag = "Err"
             THEN /\ pc' = "done"
                  /\ ret' = r
                  /\ UNCHANGED <<img_data, capture_ms>>
             ELSE /\ pc' = "detect_arrow"
                  /\ img_data' = Some(r.val)
                  /\ capture_ms' = U64(ms)
                  /\ UNCHANGED ret
          /\ UNCHANGED <<op, args, arrow, highlight, ran>>
          /\ UNCHANGED scan_vars

\* line 41
analyze_arrow ==
    /\ pc = "detect_arrow"
    /\ LET found == find_yellow_arrow(img_data.val, args.width, args.height,
                                      args.overflow_checks)
       IN  /\ ran' = Append(ran, "find_yellow_arrow")
           /\ IF found = Panic
              THEN /\ pc' = "done"
                   /\ ret' = Panic
                   /\ UNCHANGED arrow
              ELSE /\ pc' = "detect_highlight"
                   /\ arrow' = found
                   /\ UNCHANGED ret
    /\ UNCHANGED <<op, args, img_data, highlight, capture_ms, acquired>>
    /\ UNCHANGED scan_vars

\* line 42
analyze_highlight ==
    /\ pc = "detect_highlight"
    /\ LET found == find_cyan_highlight(img_data.val, args.width, args.height,
                                        args.overflow_checks)
       IN  /\ ran' = Append(ran, "find_cyan_highlight")
           /\ IF found = Panic
              THEN /\ pc' = "done"
                   /\ ret' = Panic
                   /\ UNCHANGED highlight
              ELSE /\ pc' = "return"
                   /\ highlight' = found
                   /\ UNCHANGED ret
    /\ UNCHANGED <<op, args, img_data, arrow, capture_ms, acquired>>
    /\ UNCHANGED scan_vars

\* lines 44-51
return_result ==
    /\ pc = "return"
    /\ \E ms \in 0..MaxElapsedMs :
          ret' = Ok([arrow |-> to_point(arrow), highlight |-> to_point(highlight),
                     capture_ms |-> capture_ms, detect_ms |-> U64(ms)])
    /\ pc' = "done"
    /\ UNCHANGED <<op, args, img_data, arrow, highlight, capture_ms, acquired, ran>>
    /\ UNCHANGED scan_vars

NextCapture == capture \/ analyze_arrow \/ analyze_highlight \/ return_result

SpecCapture == InitCapture /\ [][NextCapture]_vars

\* C8: when the frame acquisition fails the call returns that error, no
\* detector runs afterwards and no DetectionResult is produced; when it
\* succeeds both detectors run on that frame and an Ok DetectionResult is
\* returned even with both points absent.  An error is returned only for a
\* failed acquisition.
C8_CaptureFailureShortCircuits ==
    /\ (acquired.tag = "Err") =>
           /\ pc = "done"
           /\ ret = acquired
           /\ ran = <<>>
           /\ arrow = NoRet /\ highlight = NoRet
    /\ (ran # <<>>) => (acquired.tag = "Ok" /\ img_data = Some(acquired.val))
    /\ (pc = "done" /\ acquired.tag = "Ok") =>
           /\ ret.tag = "Ok"
           /\ ran = <<"find_yellow_arrow", "find_cyan_highlight">>
           /\ ret.val.arrow = to_point(find_yellow_arrow(acquired.val, args.width,
                                                         args.height, FALSE))
           /\ ret.val.highlight = to_point(find_cyan_highlight(acquired.val, args.width,
                                                               args.height, FALSE))
    /\ (pc = "done") => ((ret.tag = "Err") <=> (acquired.tag = "Err"))

\* a successful capture showing neither cue: an Ok result with both absent
C8_Witness ==
    /\ pc = "done"
    /\ op = "capture_and_analyze"
    /\ acquired.tag = "Ok"
    /\ ret.tag = "Ok"
    /\ ret.val.arrow = None
    /\ ret.val.highlight = None
    /\ Len(ran) = 2

-----------------------------------------------------------------------------
(* detection.rs: the data-parallel scan of lines 19-36 / 68-85              *)
(*                                                                         *)
(* (0..total_pixels).into_par_iter().filter_map(..).collect() hands the    *)
(* pixel indices to the workers of the thread pool; each worker tests its  *)
(* indices one at a time and keeps its matches in a Vec of its own, and    *)
(* the Vecs are appended into the collected Vec.  The pool appends them in *)
(* index order; here they may be appended in any order, and a worker's     *)
(* indices need not be contiguous.                                         *)

\* the workers of the thread pool
Workers == {1, 2}

ScanOps == {"find_yellow_arrow", "find_cyan_highlight"}

\* line 12: (width * height) as usize, release profile
total_pixels_of(width, height) ==
    LET total == wrapping_mul(width, height)
    IN  total.hi * Pow16 + total.lo

\* lines 21-35: the closure of filter_map applied to pixel index i
yellow_match(img, i, pixels_per_row) ==
    LET offset == i * 4
        r == At(img, offset)
        g == At(img, offset + 1)
        b == At(img, offset + 2)
    IN  IF r > 200 /\ g > 200 /\ b < 80
        THEN Some([x |-> i % pixels_per_row, y |-> i \div pixels_per_row])
        ELSE None

\* lines 70-84
cyan_match(img, i, pixels_per_row) ==
    LET offset == i * 4
        r == At(img, offset)
        g == At(img, offset + 1)
        b == At(img, offset + 2)
    IN  IF r < 80 /\ g > 180 /\ b > 180
        THEN Some([x |-> i % pixels_per_row, y |-> i \div pixels_per_row])
        ELSE None

\* the indices given to worker w, in the order it tests them
own(part, w, total_pixels) ==
    SelectSeq([k \in 1..total_pixels |-> k - 1], LAMBDA i : part[i] = w)

\* the indices below c to worker 1, the others to worker 2
SplitAt(total_pixels, c) ==
    [i \in 0..(total_pixels - 1) |-> IF i < c THEN 1 ELSE 2]

\* every n-th index, counted from 0, to worker 1, the others to worker 2
EveryNth(total_pixels, n) ==
    [i \in 0..(total_pixels - 1) |-> IF i % n = 0 THEN 1 ELSE 2]

\* alternate chunks of len indices to worker 2 and worker 1
Chunked(total_pixels, len) ==
    [i \in 0..(total_pixels - 1) |-> IF (i \div len) % 2 = 0 THEN 2 ELSE 1]

\* the ways the indices may be divided: one cut at any index (either side
\* may be empty), alternate indices, every third index, alternate rows,
\* alternate quarters
Partitions(total_pixels, pixels_per_row) ==
    {SplitAt(total_pixels, c) : c \in 0..total_pixels}
        \cup {EveryNth(total_pixels, 2), EveryNth(total_pixels, 3)}
        \cup (IF pixels_per_row > 0 THEN {Chunked(total_pixels, pixels_per_row)} ELSE {})
        \cup (IF total_pixels >= 4 THEN {Chunked(total_pixels, total_pixels \div 4)} ELSE {})

\* mutant: a worker's matches replace the collected ones
append_matches_overwriting(into, part) == part

\* line 36: collect() appends a worker's matches to the collected ones
append_matches(into, part) == into \o part

\* frames for the scan: runs around both thresholds, a rectangular blob, a
\* frame with both cues, an empty frame and a buffer one pixel short
ScanInputs ==
    LET w == MaxWidth
        h == MaxHeight
    IN  { DetectArgs(RunFrame(w, h, s, k, fg, 0), w, h, FALSE) :
            s \in {0, 3}, k \in {9, 10, 19, 20}, fg \in {Yellow, Cyan} }
        \cup { DetectArgs(RectFrame(w, h, 1, w - 1, 0, h - 1, fg), w, h, FALSE) :
                 fg \in {Yellow, Cyan} }
        \cup { DetectArgs(TwoCueFrame(w, h, 10, w * h - 11, 0), w, h, FALSE),
               DetectArgs(<<>>, 0, 0, FALSE),
               DetectArgs(RunFrame(w, h, 0, w * h, Yellow, -4), w, h, FALSE) }

InitScan ==
    /\ pc = "call"
    /\ op \in ScanOps
    /\ args \in ScanInputs
    /\ ret = NoRet
    /\ Idle

\* lines 11-16 and the start of the parallel iterator
enter_scan ==
    /\ pc = "call"
    /\ op \in ScanOps
    /\ IF args.overflow_checks /\ mul_overflows(args.width, args.height)
       THEN Return(Panic)
       ELSE IF len_lt_total4(Len(args.img_data), wrapping_mul(args.width, args.height))
       THEN Return(None)
       ELSE /\ pc' = "scan"
            /\ owner' \in Partitions(total_pixels_of(args.width, args.height), args.width)
            /\ cursor' = [w \in Workers |-> 0]
            /\ emitted' = [w \in Workers |-> <<>>]
            /\ UNCHANGED <<op, args, ret, img_data, arrow, highlight, capture_ms,
                           acquired, ran, joined, collected>>

\* worker w applies the closure to its next index
test_pixel(w) ==
    /\ pc = "scan"
    /\ LET mine == own(owner, w, total_pixels_of(args.width, args.height))
       IN  /\ cursor[w] < Len(mine)
           /\ LET i == mine[cursor[w] + 1]
                  m == IF op = "find_yellow_arrow"
                       THEN yellow_match(args.img_data, i, args.width)
                       ELSE cyan_match(args.img_data, i, args.width)
              IN  emitted' = [emitted EXCEPT
                                 ![w] = IF is_some(m) THEN Append(@, m.val) ELSE @]
    /\ cursor' = [cursor EXCEPT ![w] = @ + 1]
    /\ UNCHANGED <<pc, op, args, ret, img_data, arrow, highlight, capture_ms,
                   acquired, ran, owner, joined, collected>>

\* the matches of worker w, which has tested all its indices, are collected
join(w) ==
    /\ pc = "scan"
    /\ w \notin joined
    /\ cursor[w] = Len(own(owner, w, total_pixels_of(args.width, args.height)))
    /\ collected' = append_matches(collected, emitted[w])
    /\ joined' = joined \cup {w}
    /\ UNCHANGED <<pc, op, args, ret, img_data, arrow, highlight, capture_ms,
                   acquired, ran, owner, cursor, emitted>>

\* lines 38-53 / 87-100 on the collected matches
reduce ==
    /\ pc = "scan"
    /\ joined = Workers
    /\ IF op = "find_yellow_arrow"
       THEN Return(IF below_threshold(Len(collected), ARROW_MIN_PIXELS) THEN None
                   ELSE locate(collected, ARROW_NORMALIZER))
       ELSE Return(IF below_threshold(Len(collected), HIGHLIGHT_MIN_PIXELS) THEN None
                   ELSE locate(collected, HIGHLIGHT_NORMALIZER))

NextScan ==
    \/ enter_scan
    \/ \E w \in Workers : test_pixel(w)
    \/ \E w \in Workers : join(w)
    \/ reduce

SpecScan == InitScan /\ [][NextScan]_vars

ScanDone == pc = "done" /\ op \in ScanOps

\* the result of the sequential left-to-right scan of the frame of the call
SequentialScan ==
    IF op = "find_yellow_arrow"
    THEN find_yellow_arrow(args.img_data, args.width, args.height, args.overflow_checks)
    ELSE find_cyan_highlight(args.img_data, args.width, args.height, args.overflow_checks)

\* the matches among the first n indices of worker w, in its order
MatchesOf(w, n) ==
    LET mine == SubSeq(own(owner, w, total_pixels_of(args.width, args.height)), 1, n)
    IN  IF op = "find_yellow_arrow"
        THEN coords_of(SelectSeq(mine, LAMBDA i : is_some(yellow_match(args.img_data, i, args.width))),
                       args.width)
        ELSE coords_of(SelectSeq(mine, LAMBDA i : is_some(cyan_match(args.img_data, i, args.width))),
                       args.width)

\* the pixel index of a collected match
IndexOf(m) == m.y * args.width + m.x

\* C14: the per-pixel tests are independent units of work with no shared
\* accumulator (what a worker has emitted is decided by its own indices and
\* its own progress alone, whatever the other worker has done, and the
\* collected matches are those of the joined workers), and for every division
\* of the indices between the workers, every interleaving of their tests and
\* every order of merging their matches the call returns what the sequential
\* left-to-right scan returns: the same found / not-found outcome, the same
\* centroid and the same confidence.
C14_ScanOrderIndependent ==
    /\ ScanDone => ret = SequentialScan
    /\ (pc = "scan" \/ (ScanDone /\ owner # NoRet)) =>
           /\ \A w \in Workers : emitted[w] = MatchesOf(w, cursor[w])
           /\ \A w \in joined : \A k \in 1..Len(emitted[w]) :
                  \E j \in 1..Len(collected) : collected[j] = emitted[w][k]
           /\ Len(collected) =
                  SumRange([w \in Workers |-> IF w \in joined THEN Len(emitted[w]) ELSE 0],
                           1, Cardinality(Workers))

\* a call that found the cue from matches of both workers, its indices not
\* divided at one cut, the matches collected out of index order
C14_Witness ==
    /\ ScanDone
    /\ is_some(ret)
    /\ ret = SequentialScan
    /\ \A w \in Workers : emitted[w] # <<>>
    /\ \E i \in 1..(Len(collected) - 1) : IndexOf(collected[i]) > IndexOf(collected[i + 1])
    /\ \E i, j \in DOMAIN owner : i < j - 1 /\ owner[i] = owner[j] /\ owner[i + 1] # owner[i]

=============================================================================
